---- MODULE Spec2Model ----
(***************************************************************************)
(* Procedural building generators of uph-gpkk:                             *)
(*   building_generator.py     (v1: slabs, columns, beams X/Z, one mesh)   *)
(*   building_generator_v2.py  (v2: + brace, walls, core, normals)         *)
(*   building_generator_v3.py  (v3: named groups, two LODs, append_mesh)   *)
(*                                                                         *)
(* Lengths are integers in units of 1/120 m, so that every w/2, h/2, d/2   *)
(* and building_width/(grid_size-1) of the runs modelled here is exact:    *)
(* 20 m = 2400, 3.5 m = 420, 0.4 m = 48, 0.5 m = 60, 0.3 m = 36, 4 m = 480,*)
(* 0.2 m = 24.  Python's "/" is modelled by \div on these units.           *)
(*                                                                         *)
(* all_buffer holds len(all_buffer): struct.pack('<3f', ..) contributes 12 *)
(* bytes per vertex or normal, struct.pack('<I', ..) 4 bytes per index.    *)
(***************************************************************************)
EXTENDS Integers, Sequences, FiniteSets, TLC

\* ---------------------------------------------------------------- bounds
MaxFloors == 5
MaxGrid == 5
\* aggregator runs: number of add calls, vertices of a free-form piece
MaxAdds == 3
MaxPieceVerts == 2
\* box runs: half-extents 1..MaxHalfDim, centre coordinates -MaxCenter..MaxCenter
MaxHalfDim == 2
MaxCenter == 1

\* ------------------------------------------------------------ parameters
floor_height == 420
building_width == 2400
column_size == 48
beam_height == 60
beam_width == 48
slab_thickness == 36
core_size == 480
wall_thickness == 36
brace_thickness == 24

FloatVec3Bytes == 12
UIntBytes == 4

VARIABLES
    variant,        \* which script runs: "v1", "v2" or "v3"
    floors,         \* floors
    grid_size,      \* grid_size (v1, v2)
    grid_L0,        \* grid_L0 (v3)
    grid_L1,        \* grid_L1 (v3)
    pc,             \* position in the script
    error,          \* exception that ended the run, "" when none
    lod0, lod1,     \* v3: results of build_structure, <<>> before the call
    all_vertices,   \* v1, v2: all_vertices
    all_indices,    \* v1, v2: all_indices
    offset,         \* v1: vertex_offset, v2: offset
    f,              \* v1, v2: the floor the "for f in range(floors)" loop is at
    all_buffer,     \* len(all_buffer) / len(combined)
    buffers,        \* gltf["buffers"]
    bufferViews,    \* gltf["bufferViews"]
    accessors,      \* gltf["accessors"]
    meshes,         \* gltf["meshes"]
    nodes,          \* gltf["nodes"]
    written,        \* json.dump has written the artifact
    store_v,        \* aggregator runs: store_v of build_structure.add
    store_i,        \* aggregator runs: store_i of build_structure.add
    added,          \* aggregator runs: sum of len(v) over the calls made
    calls,          \* aggregator runs: number of calls made
    arg,            \* box runs: the arguments of create_box
    box             \* box runs: the value create_box returned

vars == <<variant, floors, grid_size, grid_L0, grid_L1, pc, error, lod0, lod1,
          all_vertices, all_indices, offset, f, all_buffer, buffers, bufferViews,
          accessors, meshes, nodes, written, store_v, store_i, added, calls,
          arg, box>>

params == <<variant, floors, grid_size, grid_L0, grid_L1>>
aux == <<store_v, store_i, added, calls, arg, box>>
globals == <<all_vertices, all_indices, offset, f>>

\* ------------------------------------------------------ geometry helpers
BoxIndices ==
    << 0,1,2,2,3,0,
       1,5,6,6,2,1,
       5,4,7,7,6,5,
       4,0,3,3,7,4,
       3,2,6,6,7,3,
       4,5,1,1,0,4 >>

\* create_box with a ninth corner referenced by the last triangle
create_box_bad_index(w, h, d, tx, ty, tz) ==
    LET hw == w \div 2
        hh == h \div 2
        hd == d \div 2
        verts == << <<-hw,-hh, hd>>, << hw,-hh, hd>>, << hw, hh, hd>>, <<-hw, hh, hd>>,
                    <<-hw,-hh,-hd>>, << hw,-hh,-hd>>, << hw, hh,-hd>>, <<-hw, hh,-hd>> >>
    IN  [v |-> [k \in 1..Len(verts) |->
                   <<verts[k][1] + tx, verts[k][2] + ty, verts[k][3] + tz>>],
         i |-> [BoxIndices EXCEPT ![36] = 8]]

\* create_box(w, h, d, tx, ty, tz): (verts, indices)
create_box(w, h, d, tx, ty, tz) ==
    LET hw == w \div 2
        hh == h \div 2
        hd == d \div 2
        verts == << <<-hw,-hh, hd>>, << hw,-hh, hd>>, << hw, hh, hd>>, <<-hw, hh, hd>>,
                    <<-hw,-hh,-hd>>, << hw,-hh,-hd>>, << hw, hh,-hd>>, <<-hw, hh,-hd>> >>
    IN  [v |-> [k \in 1..Len(verts) |->
                   <<verts[k][1] + tx, verts[k][2] + ty, verts[k][3] + tz>>],
         i |-> BoxIndices]

\* building_generator.py: create_box(width, height, depth, tx, ty, tz)
create_box_v1(width, height, depth, tx, ty, tz) ==
    LET w == width \div 2
        h == height \div 2
        d == depth \div 2
        vertices == << <<-w,-h, d>>, << w,-h, d>>, << w, h, d>>, <<-w, h, d>>,
                       <<-w,-h,-d>>, << w,-h,-d>>, << w, h,-d>>, <<-w, h,-d>> >>
    IN  [v |-> [k \in 1..Len(vertices) |->
                   <<vertices[k][1] + tx, vertices[k][2] + ty, vertices[k][3] + tz>>],
         i |-> BoxIndices]

\* compute_normals(vertices, indices): one normal per vertex, in vertex order
\* (normals = [[0,0,0] for _ in vertices]; one out.append per accumulator).
\* The float direction of a normal is kept as the token "n".
compute_normals(vertices, indices) ==
    [k \in 1..Len(vertices) |-> "n"]

\* add with the offset read after store_v.extend(v)
add_late_offset(v, i, store) ==
    LET off == Len(store.v \o v)
    IN  [v |-> store.v \o v,
         i |-> store.i \o [k \in 1..Len(i) |-> i[k] + off]]

\* build_structure.add(v, i, store_v, store_i) on the pair store = [v, i]
add(v, i, store) ==
    LET off == Len(store.v)
    IN  [v |-> store.v \o v,
         i |-> store.i \o [k \in 1..Len(i) |-> i[k] + off]]

EmptyStore == [v |-> <<>>, i |-> <<>>]

\* v2: add_mesh(v, i) on the globals g = [all_vertices, all_indices, offset]
add_mesh(v, i, g) ==
    [all_vertices |-> g.all_vertices \o v,
     all_indices  |-> g.all_indices \o [k \in 1..Len(i) |-> i[k] + g.offset],
     offset       |-> g.offset + Len(v)]

\* v1: the three statements after every create_box call, on the globals
\* g = [all_vertices, all_indices, offset] (offset is vertex_offset)
accumulate(v, i, g) ==
    [all_vertices |-> g.all_vertices \o v,
     all_indices  |-> g.all_indices \o [k \in 1..Len(i) |-> i[k] + g.offset],
     offset       |-> g.offset + Len(v)]

\* the loop "for b in boxes[lo..hi]: add_mesh(*b)", the range taken as its
\* first half followed by its second half (the test on "done" is always true
\* and only makes the first half be evaluated before the second); likewise
\* for the inline statements of v1 and for build_structure.add
RECURSIVE AddMeshRange(_, _, _, _)
AddMeshRange(boxes, lo, hi, g) ==
    IF lo > hi THEN g
    ELSE IF lo = hi THEN add_mesh(boxes[lo].v, boxes[lo].i, g)
    ELSE LET mid == (lo + hi) \div 2
             done == AddMeshRange(boxes, lo, mid, g)
         IN  IF done.offset >= 0 THEN AddMeshRange(boxes, mid + 1, hi, done) ELSE done

AddMeshAll(boxes, g) == AddMeshRange(boxes, 1, Len(boxes), g)

RECURSIVE AccumulateRange(_, _, _, _)
AccumulateRange(boxes, lo, hi, g) ==
    IF lo > hi THEN g
    ELSE IF lo = hi THEN accumulate(boxes[lo].v, boxes[lo].i, g)
    ELSE LET mid == (lo + hi) \div 2
             done == AccumulateRange(boxes, lo, mid, g)
         IN  IF done.offset >= 0 THEN AccumulateRange(boxes, mid + 1, hi, done) ELSE done

AccumulateAll(boxes, g) == AccumulateRange(boxes, 1, Len(boxes), g)

RECURSIVE AddRange(_, _, _, _)
AddRange(boxes, lo, hi, store) ==
    IF lo > hi THEN store
    ELSE IF lo = hi THEN add(boxes[lo].v, boxes[lo].i, store)
    ELSE LET mid == (lo + hi) \div 2
             done == AddRange(boxes, lo, mid, store)
         IN  IF Len(done.v) >= 0 THEN AddRange(boxes, mid + 1, hi, done) ELSE done

AddAll(boxes, store) == AddRange(boxes, 1, Len(boxes), store)

\* ------------------------------------------------------- layout loops
\* the test without the "-1": columns and beams above the topmost slab too
below_top_all(fl) == fl < floors

\* "if f < floors-1": floor f has a storey above it
below_top(fl) == fl < floors - 1

\* The column and beam loops are the same text in the three scripts; each
\* calls the create_box of the script that runs.
script_box(w, h, d, tx, ty, tz) ==
    IF variant = "v1" THEN create_box_v1(w, h, d, tx, ty, tz)
    ELSE create_box(w, h, d, tx, ty, tz)

\* columns of floor fl: for gx in range(n): for gz in range(n)
ColumnBoxes(fl, n, spacing) ==
    LET y == fl * floor_height
    IN  [k \in 1..(n * n) |->
            LET gx == (k - 1) \div n
                gz == (k - 1) % n
                x == (0 - building_width) \div 2 + gx * spacing
                z == (0 - building_width) \div 2 + gz * spacing
            IN  script_box(column_size, floor_height, column_size,
                           x, y + floor_height \div 2, z)]

\* beams of floor fl along X: for gz in range(n): for gx in range(n-1)
BeamXBoxes(fl, n, spacing) ==
    LET y == fl * floor_height
    IN  [k \in 1..(n * (n - 1)) |->
            LET gz == (k - 1) \div (n - 1)
                gx == (k - 1) % (n - 1)
                z == (0 - building_width) \div 2 + gz * spacing
                xs == (0 - building_width) \div 2 + gx * spacing
                xe == xs + spacing
                mx == (xs + xe) \div 2
            IN  script_box(spacing, beam_height, beam_width,
                  mx, y + floor_height - beam_height \div 2, z)]

\* beams of floor fl along Z: for gx in range(n): for gz in range(n-1)
BeamZBoxes(fl, n, spacing) ==
    LET y == fl * floor_height
    IN  [k \in 1..(n * (n - 1)) |->
            LET gx == (k - 1) \div (n - 1)
                gz == (k - 1) % (n - 1)
                x == (0 - building_width) \div 2 + gx * spacing
                zs == (0 - building_width) \div 2 + gz * spacing
                ze == zs + spacing
                mz == (zs + ze) \div 2
            IN  script_box(beam_width, beam_height, spacing,
                  x, y + floor_height - beam_height \div 2, mz)]

\* "Shear Walls" / "Shear Wall" loop: for f in range(floors-1)
WallBoxes ==
    [k \in 1..(floors - 1) |->
        create_box(wall_thickness, floor_height, building_width,
                   (0 - building_width) \div 2,
                   (k - 1) * floor_height + floor_height \div 2, 0)]

\* "Core" loop: for f in range(floors-1)
CoreBoxes ==
    [k \in 1..(floors - 1) |->
        create_box(core_size, floor_height, core_size,
                   0, (k - 1) * floor_height + floor_height \div 2, 0)]

\* ------------------------------------------------- v3: build_structure
\* build_structure(grid_size), for grid_size # 1; the dictionary is the
\* sequence of its items in insertion order.
build_structure(n) ==
    LET spacing == building_width \div (n - 1)
        RECURSIVE floor_loop(_, _)
        floor_loop(fl, g) ==
            IF fl >= floors THEN g
            ELSE
              LET y == fl * floor_height
                  slab == create_box(building_width, slab_thickness, building_width, 0, y, 0)
                  zone == create_box((building_width * 9) \div 10, (floor_height * 8) \div 10,
                                     (building_width * 9) \div 10, 0, y + floor_height \div 2, 0)
                  below == below_top(fl)
              IN  floor_loop(fl + 1,
                    [slabs   |-> add(slab.v, slab.i, g.slabs),
                     spatial |-> add(zone.v, zone.i, g.spatial),
                     cols    |-> IF below THEN AddAll(ColumnBoxes(fl, n, spacing), g.cols)
                                 ELSE g.cols,
                     beams   |-> IF below THEN AddAll(BeamXBoxes(fl, n, spacing), g.beams)
                                 ELSE g.beams])
        g0 == floor_loop(0, [slabs |-> EmptyStore, spatial |-> EmptyStore,
                             cols |-> EmptyStore, beams |-> EmptyStore])
        core == AddAll(CoreBoxes, EmptyStore)
        walls == AddAll(WallBoxes, EmptyStore)
        item(name, s, sem) == [name |-> name, v |-> s.v, i |-> s.i, semantic |-> sem]
    IN  << item("Slabs", g0.slabs, "structure"),
           item("Columns", g0.cols, "structure"),
           item("Beams", g0.beams, "structure"),
           item("Core", core, "structure"),
           item("Walls", walls, "structure"),
           item("SpatialZones", g0.spatial, "spatial") >>

\* ------------------------------------------------------ v3: append_mesh
\* append_mesh packing the indices as 16-bit ('<H') under a 5125 accessor
append_mesh_short_indices(data, lod_level, d) ==
    LET verts == data.v
        inds == data.i
        normals == compute_normals(verts, inds)
        v_bytes == Len(verts) * FloatVec3Bytes
        n_bytes == Len(normals) * FloatVec3Bytes
        i_bytes == Len(inds) * 2
        offset_v == d.all_buffer
        offset_n == offset_v + v_bytes
        offset_i == offset_n + n_bytes
        bv_v == Len(d.bufferViews)
        bv_n == bv_v + 1
        bv_i == bv_v + 2
        acc_v == Len(d.accessors)
        acc_n == acc_v + 1
        acc_i == acc_v + 2
        newMeshes == Append(d.meshes,
            [POSITION |-> acc_v, NORMAL |-> acc_n, indices |-> acc_i])
    IN  [all_buffer |-> offset_i + i_bytes,
         bufferViews |-> d.bufferViews \o
            << [buffer |-> 0, byteOffset |-> offset_v, byteLength |-> v_bytes],
               [buffer |-> 0, byteOffset |-> offset_n, byteLength |-> n_bytes],
               [buffer |-> 0, byteOffset |-> offset_i, byteLength |-> i_bytes] >>,
         accessors |-> d.accessors \o
            << [bufferView |-> bv_v, componentType |-> 5126, count |-> Len(verts), type |-> "VEC3"],
               [bufferView |-> bv_n, componentType |-> 5126, count |-> Len(normals), type |-> "VEC3"],
               [bufferView |-> bv_i, componentType |-> 5125, count |-> Len(inds), type |-> "SCALAR"] >>,
         meshes |-> newMeshes,
         nodes |-> Append(d.nodes,
            [mesh |-> Len(newMeshes) - 1,
             name |-> data.name \o "_LOD" \o ToString(lod_level),
             extras |-> [semantic |-> data.semantic, lod |-> lod_level]])]

\* append_mesh writing the normals before the positions
append_mesh_normals_first(data, lod_level, d) ==
    LET verts == data.v
        inds == data.i
        normals == compute_normals(verts, inds)
        v_bytes == Len(verts) * FloatVec3Bytes
        n_bytes == Len(normals) * FloatVec3Bytes
        i_bytes == Len(inds) * UIntBytes
        offset_n == d.all_buffer
        offset_v == offset_n + n_bytes
        offset_i == offset_v + v_bytes
        bv_v == Len(d.bufferViews)
        bv_n == bv_v + 1
        bv_i == bv_v + 2
        acc_v == Len(d.accessors)
        acc_n == acc_v + 1
        acc_i == acc_v + 2
        newMeshes == Append(d.meshes,
            [POSITION |-> acc_v, NORMAL |-> acc_n, indices |-> acc_i])
    IN  [all_buffer |-> offset_i + i_bytes,
         bufferViews |-> d.bufferViews \o
            << [buffer |-> 0, byteOffset |-> offset_v, byteLength |-> v_bytes],
               [buffer |-> 0, byteOffset |-> offset_n, byteLength |-> n_bytes],
               [buffer |-> 0, byteOffset |-> offset_i, byteLength |-> i_bytes] >>,
         accessors |-> d.accessors \o
            << [bufferView |-> bv_v, componentType |-> 5126, count |-> Len(verts), type |-> "VEC3"],
               [bufferView |-> bv_n, componentType |-> 5126, count |-> Len(normals), type |-> "VEC3"],
               [bufferView |-> bv_i, componentType |-> 5125, count |-> Len(inds), type |-> "SCALAR"] >>,
         meshes |-> newMeshes,
         nodes |-> Append(d.nodes,
            [mesh |-> Len(newMeshes) - 1,
             name |-> data.name \o "_LOD" \o ToString(lod_level),
             extras |-> [semantic |-> data.semantic, lod |-> lod_level]])]

\* append_mesh(name, data, lod_level) on the document d; data carries name
append_mesh(data, lod_level, d) ==
    LET verts == data.v
        inds == data.i
        normals == compute_normals(verts, inds)
        v_bytes == Len(verts) * FloatVec3Bytes
        n_bytes == Len(normals) * FloatVec3Bytes
        i_bytes == Len(inds) * UIntBytes
        offset_v == d.all_buffer
        offset_n == offset_v + v_bytes
        offset_i == offset_n + n_bytes
        bv_v == Len(d.bufferViews)
        bv_n == bv_v + 1
        bv_i == bv_v + 2
        acc_v == Len(d.accessors)
        acc_n == acc_v + 1
        acc_i == acc_v + 2
        newMeshes == Append(d.meshes,
            [POSITION |-> acc_v, NORMAL |-> acc_n, indices |-> acc_i])
    IN  [all_buffer |-> offset_i + i_bytes,
         bufferViews |-> d.bufferViews \o
            << [buffer |-> 0, byteOffset |-> offset_v, byteLength |-> v_bytes],
               [buffer |-> 0, byteOffset |-> offset_n, byteLength |-> n_bytes],
               [buffer |-> 0, byteOffset |-> offset_i, byteLength |-> i_bytes] >>,
         accessors |-> d.accessors \o
            << [bufferView |-> bv_v, componentType |-> 5126, count |-> Len(verts), type |-> "VEC3"],
               [bufferView |-> bv_n, componentType |-> 5126, count |-> Len(normals), type |-> "VEC3"],
               [bufferView |-> bv_i, componentType |-> 5125, count |-> Len(inds), type |-> "SCALAR"] >>,
         meshes |-> newMeshes,
         nodes |-> Append(d.nodes,
            [mesh |-> Len(newMeshes) - 1,
             name |-> data.name \o "_LOD" \o ToString(lod_level),
             extras |-> [semantic |-> data.semantic, lod |-> lod_level]])]

Doc == [all_buffer |-> all_buffer, bufferViews |-> bufferViews,
        accessors |-> accessors, meshes |-> meshes, nodes |-> nodes]

\* ------------------------------------------------------------ v3 script
BuildLod0 ==
    /\ variant = "v3" /\ pc = "build_lod0"
    /\ IF grid_L0 = 1
       THEN /\ pc' = "failed" /\ error' = "ZeroDivisionError"
            /\ lod0' = lod0
       ELSE /\ pc' = "build_lod1" /\ error' = error
            /\ lod0' = build_structure(grid_L0)
    /\ UNCHANGED <<params, lod1, globals, all_buffer,
                   buffers, bufferViews, accessors, meshes, nodes, written, aux>>

BuildLod1 ==
    /\ variant = "v3" /\ pc = "build_lod1"
    /\ IF grid_L1 = 1
       THEN /\ pc' = "failed" /\ error' = "ZeroDivisionError"
            /\ lod1' = lod1
       ELSE /\ pc' = "append_lod0" /\ error' = error
            /\ lod1' = build_structure(grid_L1)
    /\ UNCHANGED <<params, lod0, globals, all_buffer,
                   buffers, bufferViews, accessors, meshes, nodes, written, aux>>

\* one iteration of "for name,data in lod0.items(): append_mesh(name,data,0)"
AppendLod0 ==
    /\ variant = "v3" /\ pc = "append_lod0"
    /\ LET k == Len(meshes) + 1
           d == append_mesh(lod0[k], 0, Doc)
       IN  /\ all_buffer' = d.all_buffer
           /\ bufferViews' = d.bufferViews
           /\ accessors' = d.accessors
           /\ meshes' = d.meshes
           /\ nodes' = d.nodes
           /\ pc' = IF k = Len(lod0) THEN "append_lod1" ELSE pc
    /\ UNCHANGED <<params, error, lod0, lod1, globals,
                   buffers, written, aux>>

\* one iteration of "for name,data in lod1.items(): append_mesh(name,data,1)"
AppendLod1 ==
    /\ variant = "v3" /\ pc = "append_lod1"
    /\ LET k == Len(meshes) - Len(lod0) + 1
           d == append_mesh(lod1[k], 1, Doc)
       IN  /\ all_buffer' = d.all_buffer
           /\ bufferViews' = d.bufferViews
           /\ accessors' = d.accessors
           /\ meshes' = d.meshes
           /\ nodes' = d.nodes
           /\ pc' = IF k = Len(lod1) THEN "write" ELSE pc
    /\ UNCHANGED <<params, error, lod0, lod1, globals,
                   buffers, written, aux>>

\* gltf = {...}; json.dump(gltf, f)
WriteV3 ==
    /\ variant = "v3" /\ pc = "write"
    /\ buffers' = << [byteLength |-> all_buffer] >>
    /\ written' = TRUE
    /\ pc' = "done"
    /\ UNCHANGED <<params, error, lod0, lod1, globals,
                   all_buffer, bufferViews, accessors, meshes, nodes, aux>>

\* ------------------------------------------------------------ v1 script
EmptyGlobals == [all_vertices |-> <<>>, all_indices |-> <<>>, offset |-> 0]

Globals == [all_vertices |-> all_vertices, all_indices |-> all_indices,
            offset |-> offset]

\* one iteration of the "Generation" loop of building_generator.py for floor
\* fl, on the globals g; n is grid_size
floor_v1(fl, n, g) ==
    LET column_spacing == building_width \div (n - 1)
        y_base == fl * floor_height
        slab == create_box_v1(building_width, slab_thickness, building_width,
                              0, y_base, 0)
        g1 == accumulate(slab.v, slab.i, g)
    IN  IF below_top(fl)
        THEN LET g2 == AccumulateAll(ColumnBoxes(fl, n, column_spacing), g1)
                 g3 == AccumulateAll(BeamXBoxes(fl, n, column_spacing), g2)
             IN  AccumulateAll(BeamZBoxes(fl, n, column_spacing), g3)
        ELSE g1

\* max(v[a] for v in vs), min(v[a] for v in vs); a is 1, 2, 3 for x, y, z
AxisMax(vs, a) ==
    LET S == {vs[k][a] : k \in 1..Len(vs)}
    IN  CHOOSE m \in S : \A x \in S : x <= m

AxisMin(vs, a) ==
    LET S == {vs[k][a] : k \in 1..Len(vs)}
    IN  CHOOSE m \in S : \A x \in S : m <= x

\* "Parameters": column_spacing = building_width / (grid_size - 1)
ParametersV1 ==
    /\ variant = "v1" /\ pc = "parameters"
    /\ IF grid_size = 1
       THEN pc' = "failed" /\ error' = "ZeroDivisionError"
       ELSE pc' = "generate" /\ error' = error
    /\ UNCHANGED <<params, lod0, lod1, globals, all_buffer, buffers,
                   bufferViews, accessors, meshes, nodes, written, aux>>

\* one iteration of "for f in range(floors)"
FloorV1 ==
    /\ variant = "v1" /\ pc = "generate"
    /\ LET g == floor_v1(f, grid_size, Globals)
       IN  /\ all_vertices' = g.all_vertices
           /\ all_indices' = g.all_indices
           /\ offset' = g.offset
    /\ f' = f + 1
    /\ pc' = IF f + 1 < floors THEN pc ELSE "emit"
    /\ UNCHANGED <<params, error, lod0, lod1, all_buffer, buffers,
                   bufferViews, accessors, meshes, nodes, written, aux>>

\* "Convert to Binary", "glTF Structure" and json.dump of building_generator.py
EmitV1 ==
    /\ variant = "v1" /\ pc = "emit"
    /\ LET vertex_bytes == Len(all_vertices) * FloatVec3Bytes
           index_bytes == Len(all_indices) * UIntBytes
           combined == vertex_bytes + index_bytes
       IN  /\ all_buffer' = combined
           /\ buffers' = << [byteLength |-> combined] >>
           /\ bufferViews' =
                << [buffer |-> 0, byteOffset |-> 0, byteLength |-> vertex_bytes,
                    target |-> 34962],
                   [buffer |-> 0, byteOffset |-> vertex_bytes, byteLength |-> index_bytes,
                    target |-> 34963] >>
           /\ accessors' =
                << [bufferView |-> 0, componentType |-> 5126,
                    count |-> Len(all_vertices), type |-> "VEC3",
                    max |-> [a \in 1..3 |-> AxisMax(all_vertices, a)],
                    min |-> [a \in 1..3 |-> AxisMin(all_vertices, a)]],
                   [bufferView |-> 1, componentType |-> 5125,
                    count |-> Len(all_indices), type |-> "SCALAR"] >>
           /\ meshes' = << [POSITION |-> 0, indices |-> 1] >>
           /\ nodes' = << [mesh |-> 0] >>
    /\ written' = TRUE
    /\ pc' = "done"
    /\ UNCHANGED <<params, error, lod0, lod1, globals, aux>>

\* ------------------------------------------------------------ v2 script
\* one iteration of the first "Build Geometry" loop of building_generator_v2.py
\* for floor fl, on the globals g; n is grid_size
floor_v2(fl, n, g) ==
    LET column_spacing == building_width \div (n - 1)
        y == fl * floor_height
        slab == create_box(building_width, slab_thickness, building_width, 0, y, 0)
        g1 == add_mesh(slab.v, slab.i, g)
        x == (0 - building_width) \div 2 + column_spacing \div 2
        z == (0 - building_width) \div 2 + column_spacing \div 2
        brace == create_box(brace_thickness, floor_height, brace_thickness,
                            x, y + floor_height \div 2, z)
    IN  IF below_top(fl)
        THEN LET g2 == AddMeshAll(ColumnBoxes(fl, n, column_spacing), g1)
                 g3 == AddMeshAll(BeamXBoxes(fl, n, column_spacing), g2)
                 g4 == AddMeshAll(BeamZBoxes(fl, n, column_spacing), g3)
             IN  add_mesh(brace.v, brace.i, g4)
        ELSE g1

\* "Parameters": column_spacing = building_width / (grid_size - 1)
ParametersV2 ==
    /\ variant = "v2" /\ pc = "parameters"
    /\ IF grid_size = 1
       THEN pc' = "failed" /\ error' = "ZeroDivisionError"
       ELSE pc' = "generate" /\ error' = error
    /\ UNCHANGED <<params, lod0, lod1, globals, all_buffer, buffers,
                   bufferViews, accessors, meshes, nodes, written, aux>>

\* one iteration of "for f in range(floors)"
FloorV2 ==
    /\ variant = "v2" /\ pc = "generate"
    /\ LET g == floor_v2(f, grid_size, Globals)
       IN  /\ all_vertices' = g.all_vertices
           /\ all_indices' = g.all_indices
           /\ offset' = g.offset
    /\ f' = f + 1
    /\ pc' = IF f + 1 < floors THEN pc ELSE "walls_core"
    /\ UNCHANGED <<params, error, lod0, lod1, all_buffer, buffers,
                   bufferViews, accessors, meshes, nodes, written, aux>>

\* the "Shear Walls" loop, then the "Core" loop
WallsCoreV2 ==
    /\ variant = "v2" /\ pc = "walls_core"
    /\ LET g == AddMeshAll(CoreBoxes, AddMeshAll(WallBoxes, Globals))
       IN  /\ all_vertices' = g.all_vertices
           /\ all_indices' = g.all_indices
           /\ offset' = g.offset
    /\ pc' = "emit"
    /\ UNCHANGED <<params, error, lod0, lod1, f, all_buffer, buffers,
                   bufferViews, accessors, meshes, nodes, written, aux>>

\* "Normals", "Binary", "glTF" and json.dump of building_generator_v2.py
EmitV2 ==
    /\ variant = "v2" /\ pc = "emit"
    /\ LET normals == compute_normals(all_vertices, all_indices)
           vertex_bytes == Len(all_vertices) * FloatVec3Bytes
           normal_bytes == Len(normals) * FloatVec3Bytes
           index_bytes == Len(all_indices) * UIntBytes
           combined == vertex_bytes + normal_bytes + index_bytes
       IN  /\ all_buffer' = combined
           /\ buffers' = << [byteLength |-> combined] >>
           /\ bufferViews' =
                << [buffer |-> 0, byteOffset |-> 0, byteLength |-> vertex_bytes,
                    target |-> 34962],
                   [buffer |-> 0, byteOffset |-> vertex_bytes, byteLength |-> normal_bytes,
                    target |-> 34962],
                   [buffer |-> 0, byteOffset |-> vertex_bytes + normal_bytes,
                    byteLength |-> index_bytes, target |-> 34963] >>
           /\ accessors' =
                << [bufferView |-> 0, componentType |-> 5126,
                    count |-> Len(all_vertices), type |-> "VEC3"],
                   [bufferView |-> 1, componentType |-> 5126,
                    count |-> Len(normals), type |-> "VEC3"],
                   [bufferView |-> 2, componentType |-> 5125,
                    count |-> Len(all_indices), type |-> "SCALAR"] >>
           /\ meshes' = << [POSITION |-> 0, NORMAL |-> 1, indices |-> 2, material |-> 0] >>
           /\ nodes' = << [mesh |-> 0] >>
    /\ written' = TRUE
    /\ pc' = "done"
    /\ UNCHANGED <<params, error, lod0, lod1, globals, aux>>

\* -------------------------------------------------------- specification
InitCommon ==
    /\ error = ""
    /\ lod0 = <<>> /\ lod1 = <<>>
    /\ all_vertices = <<>> /\ all_indices = <<>> /\ offset = 0 /\ f = 0
    /\ all_buffer = 0
    /\ buffers = <<>> /\ bufferViews = <<>> /\ accessors = <<>>
    /\ meshes = <<>> /\ nodes = <<>>
    /\ written = FALSE

NoArg == [w |-> 0, h |-> 0, d |-> 0, tx |-> 0, ty |-> 0, tz |-> 0]

InitAux ==
    /\ store_v = <<>> /\ store_i = <<>> /\ added = 0 /\ calls = 0
    /\ arg = NoArg /\ box = EmptyStore

\* a run of one of the three scripts, for a floor count and grid resolution(s)
Init ==
    /\ variant \in {"v1", "v2", "v3"}
    /\ floors \in 1..MaxFloors
    /\ IF variant = "v3"
       THEN /\ grid_size = 0
            /\ grid_L0 \in 1..MaxGrid
            /\ grid_L1 \in 1..MaxGrid
            /\ pc = "build_lod0"
       ELSE /\ grid_size \in 1..MaxGrid
            /\ grid_L0 = 0 /\ grid_L1 = 0
            /\ pc = "parameters"
    /\ InitCommon
    /\ InitAux

Next ==
    \/ ParametersV1
    \/ FloorV1
    \/ EmitV1
    \/ ParametersV2
    \/ FloorV2
    \/ WallsCoreV2
    \/ EmitV2
    \/ BuildLod0
    \/ BuildLod1
    \/ AppendLod0
    \/ AppendLod1
    \/ WriteV3

Spec == Init /\ [][Next]_vars

\* ------------------------------------------------------ aggregator runs
\* A piece is what one call hands to the aggregator: n vertices and a triangle
\* over its first and last vertex, or a box.
FreePieces ==
    UNION { { [v |-> [k \in 1..n |-> <<k, 0, 0>>], i |-> <<a, b, c>>] :
                a \in {0, n - 1}, b \in {0, n - 1}, c \in {0, n - 1} } :
            n \in 1..MaxPieceVerts }

Pieces == FreePieces \cup {create_box(2, 2, 2, 0, 0, 0)}

\* add(v, i, store_v, store_i) on one group of build_structure
AddCall ==
    /\ variant = "v3" /\ pc = "adding" /\ calls < MaxAdds
    /\ \E p \in Pieces :
          LET s == add(p.v, p.i, [v |-> store_v, i |-> store_i])
          IN  /\ store_v' = s.v
              /\ store_i' = s.i
              /\ added' = added + Len(p.v)
    /\ calls' = calls + 1
    /\ UNCHANGED <<params, pc, error, lod0, lod1, globals, all_buffer,
                   buffers, bufferViews, accessors, meshes, nodes,
                   written, arg, box>>

\* add_mesh(v, i) of building_generator_v2.py
AddMeshCall ==
    /\ variant = "v2" /\ pc = "adding" /\ calls < MaxAdds
    /\ \E p \in Pieces :
          LET g == add_mesh(p.v, p.i, Globals)
          IN  /\ all_vertices' = g.all_vertices
              /\ all_indices' = g.all_indices
              /\ offset' = g.offset
              /\ added' = added + Len(p.v)
    /\ calls' = calls + 1
    /\ UNCHANGED <<params, pc, error, lod0, lod1, f, all_buffer, buffers, bufferViews,
                   accessors, meshes, nodes, written, store_v, store_i, arg, box>>

\* the extend / extend / += statements of building_generator.py
AccumulateCall ==
    /\ variant = "v1" /\ pc = "adding" /\ calls < MaxAdds
    /\ \E p \in Pieces :
          LET g == accumulate(p.v, p.i, Globals)
          IN  /\ all_vertices' = g.all_vertices
              /\ all_indices' = g.all_indices
              /\ offset' = g.offset
              /\ added' = added + Len(p.v)
    /\ calls' = calls + 1
    /\ UNCHANGED <<params, pc, error, lod0, lod1, f, all_buffer, buffers, bufferViews,
                   accessors, meshes, nodes, written, store_v, store_i, arg, box>>

InitAdd ==
    /\ variant \in {"v1", "v2", "v3"}
    /\ floors = 1 /\ grid_size = 0 /\ grid_L0 = 0 /\ grid_L1 = 0
    /\ pc = "adding"
    /\ InitCommon
    /\ InitAux

NextAdd ==
    \/ AddCall
    \/ AddMeshCall
    \/ AccumulateCall

SpecAdd == InitAdd /\ [][NextAdd]_vars

\* ------------------------------------------------------------- box runs
Dims == {2 * k : k \in 1..MaxHalfDim}
Centers == (0 - MaxCenter)..MaxCenter

\* create_box of building_generator_v2.py / building_generator_v3.py
CreateBoxCall ==
    /\ variant \in {"v2", "v3"} /\ pc = "box"
    /\ box' = create_box(arg.w, arg.h, arg.d, arg.tx, arg.ty, arg.tz)
    /\ pc' = "boxed"
    /\ UNCHANGED <<params, error, lod0, lod1, globals, all_buffer,
                   buffers, bufferViews, accessors, meshes, nodes,
                   written, store_v, store_i, added, calls, arg>>

\* create_box of building_generator.py
CreateBoxV1Call ==
    /\ variant = "v1" /\ pc = "box"
    /\ box' = create_box_v1(arg.w, arg.h, arg.d, arg.tx, arg.ty, arg.tz)
    /\ pc' = "boxed"
    /\ UNCHANGED <<params, error, lod0, lod1, globals, all_buffer,
                   buffers, bufferViews, accessors, meshes, nodes,
                   written, store_v, store_i, added, calls, arg>>

InitBox ==
    /\ variant \in {"v1", "v2", "v3"}
    /\ floors = 1 /\ grid_size = 0 /\ grid_L0 = 0 /\ grid_L1 = 0
    /\ pc = "box"
    /\ InitCommon
    /\ store_v = <<>> /\ store_i = <<>> /\ added = 0 /\ calls = 0
    /\ arg \in [w : Dims, h : Dims, d : Dims, tx : Centers, ty : Centers, tz : Centers]
    /\ box = EmptyStore

NextBox ==
    \/ CreateBoxCall
    \/ CreateBoxV1Call

SpecBox == InitBox /\ [][NextBox]_vars
\* =============================================================== claims
\* helpers of the formulas
GroupOf(lod, name) == lod[CHOOSE k \in 1..Len(lod) : lod[k].name = name]

RECURSIVE SumByteLength(_, _)
SumByteLength(views, k) ==
    IF k = 0 THEN 0 ELSE views[k].byteLength + SumByteLength(views, k - 1)

ViewsOverlap(a, b) ==
    /\ a.byteOffset < b.byteOffset + b.byteLength
    /\ b.byteOffset < a.byteOffset + a.byteLength

\* element byte size of an accessor: 12 for VEC3 float, 4 for SCALAR unsigned int
ElementBytes(acc) ==
    IF acc.type = "VEC3" /\ acc.componentType = 5126 THEN 12
    ELSE IF acc.type = "SCALAR" /\ acc.componentType = 5125 THEN 4
    ELSE 0

IndicesInRange(inds, verts) ==
    \A k \in 1..Len(inds) : inds[k] >= 0 /\ inds[k] < Len(verts)

\* the groups in emission order: the items of lod0, then the items of lod1
Emitted(m) == IF m <= Len(lod0) THEN lod0[m] ELSE lod1[m - Len(lod0)]
EmittedLod(m) == IF m <= Len(lod0) THEN 0 ELSE 1

\* ---------------------------------------------------------------- C1
\* C1: after any sequence of add calls, in any order, every index of the
\* aggregate is strictly below the length of its vertex list, and that length
\* is the sum of the vertex counts of the pieces added; for the per-group add
\* of build_structure, for add_mesh of v2 and for the inline running offset
\* of v1 (whose offset also equals that sum).
C1_AggregatorInvariant ==
    /\ IndicesInRange(store_i, store_v)
    /\ IndicesInRange(all_indices, all_vertices)
    /\ variant = "v3" => Len(store_v) = added
    /\ variant \in {"v1", "v2"} => Len(all_vertices) = added /\ offset = added

\* three pieces were added and the last index of the aggregate is its last vertex
C1_Witness ==
    /\ calls = 3
    /\ variant = "v3"
    /\ Len(store_v) > 8
    /\ store_i[Len(store_i)] = Len(store_v) - 1

\* ---------------------------------------------------------------- C2
\* C2: for every box with positive width, height and depth and any centre,
\* create_box returns exactly 8 vertices and exactly 36 indices, each in 0..7.
C2_BoxShape ==
    pc = "boxed" =>
        /\ Len(box.v) = 8
        /\ Len(box.i) = 36
        /\ \A k \in 1..Len(box.i) : box.i[k] \in 0..7

\* a box of unequal sides away from the origin was built
C2_Witness ==
    /\ pc = "boxed"
    /\ arg.w # arg.h /\ arg.h # arg.d
    /\ arg.tx < 0 /\ arg.ty > 0
    /\ box.v[1] = <<arg.tx - arg.w \div 2, arg.ty - arg.h \div 2, arg.tz + arg.d \div 2>>

\* ---------------------------------------------------------------- C3
\* C3: once all meshes are appended and the document is built, the byte
\* lengths of the buffer views sum to buffers[0].byteLength, no two buffer
\* views overlap, and every accessor's count times its element size (12 for
\* VEC3 float, 4 for SCALAR unsigned int) is the byte length of its view.
C3_ByteExact ==
    pc = "done" =>
        /\ SumByteLength(bufferViews, Len(bufferViews)) = buffers[1].byteLength
        /\ \A a \in 1..Len(bufferViews) : \A b \in 1..Len(bufferViews) :
              a # b => ~ViewsOverlap(bufferViews[a], bufferViews[b])
        /\ \A k \in 1..Len(accessors) :
              /\ accessors[k].bufferView + 1 \in 1..Len(bufferViews)
              /\ accessors[k].count * ElementBytes(accessors[k])
                    = bufferViews[accessors[k].bufferView + 1].byteLength

\* the v3 document of a building with several floors: 36 views, none empty
C3_Witness ==
    /\ pc = "done" /\ variant = "v3"
    /\ floors >= 2
    /\ Len(bufferViews) = 36
    /\ \A k \in 1..Len(bufferViews) : bufferViews[k].byteLength > 0

\* ---------------------------------------------------------------- C4
\* C4: after any number of append_mesh calls the buffer views are in mesh
\* emission order (the LOD0 groups, then the LOD1 groups), three per mesh in
\* the order positions, normals, indices; the first view starts at byte 0 and
\* every later view starts where the previous one ends.
C4_LayoutOrder ==
    variant = "v3" =>
        /\ Len(bufferViews) = 3 * Len(meshes)
        /\ Len(accessors) = 3 * Len(meshes)
        /\ Len(nodes) = Len(meshes)
        /\ \A m \in 1..Len(meshes) :
              LET grp == Emitted(m)
                  b == 3 * (m - 1)
              IN  /\ nodes[m].mesh = m - 1
                  /\ nodes[m].name = grp.name \o "_LOD" \o ToString(EmittedLod(m))
                  /\ nodes[m].extras.lod = EmittedLod(m)
                  /\ accessors[meshes[m].POSITION + 1].bufferView = b
                  /\ accessors[meshes[m].NORMAL + 1].bufferView = b + 1
                  /\ accessors[meshes[m].indices + 1].bufferView = b + 2
                  /\ bufferViews[b + 1].byteLength = 12 * Len(grp.v)
                  /\ bufferViews[b + 2].byteLength = 12 * Len(grp.v)
                  /\ bufferViews[b + 3].byteLength = 4 * Len(grp.i)
        /\ Len(bufferViews) > 0 => bufferViews[1].byteOffset = 0
        /\ \A k \in 2..Len(bufferViews) :
              bufferViews[k].byteOffset
                = bufferViews[k - 1].byteOffset + bufferViews[k - 1].byteLength
        /\ Len(bufferViews) > 0 =>
              all_buffer = bufferViews[Len(bufferViews)].byteOffset
                           + bufferViews[Len(bufferViews)].byteLength

\* the LOD1 loop is under way after the six LOD0 groups, with different grids
C4_Witness ==
    /\ variant = "v3" /\ pc = "append_lod1"
    /\ Len(meshes) = 8
    /\ grid_L0 # grid_L1
    /\ floors >= 2

\* ---------------------------------------------------------------- C5
\* C5: for F >= 1 floors and grid resolution N >= 2, build_structure(N)
\* emits exactly F slab boxes, (F-1)*N*N column boxes, F-1 core boxes and F-1
\* shear-wall boxes; nothing but the slab for the topmost floor (F = 1: one
\* slab, no columns, core or walls).
StructureCounts(lod, n) ==
    /\ Len(GroupOf(lod, "Slabs").v) = 8 * floors
    /\ Len(GroupOf(lod, "Slabs").i) = 36 * floors
    /\ Len(GroupOf(lod, "Columns").v) = 8 * (floors - 1) * n * n
    /\ Len(GroupOf(lod, "Columns").i) = 36 * (floors - 1) * n * n
    /\ Len(GroupOf(lod, "Core").v) = 8 * (floors - 1)
    /\ Len(GroupOf(lod, "Core").i) = 36 * (floors - 1)
    /\ Len(GroupOf(lod, "Walls").v) = 8 * (floors - 1)
    /\ Len(GroupOf(lod, "Walls").i) = 36 * (floors - 1)

C5_StructureCounts ==
    /\ lod0 # <<>> => StructureCounts(lod0, grid_L0)
    /\ lod1 # <<>> => StructureCounts(lod1, grid_L1)

\* F = 5, N = 5: 40 slab vertices, 800 column vertices, 4 core and 4 wall boxes
C5_Witness ==
    /\ floors = 5 /\ grid_L0 = 5
    /\ lod0 # <<>>
    /\ Len(GroupOf(lod0, "Slabs").v) = 40
    /\ Len(GroupOf(lod0, "Columns").v) = 800
    /\ Len(GroupOf(lod0, "Core").v) = 32
    /\ Len(GroupOf(lod0, "Walls").v) = 32

\* ---------------------------------------------------------------- C6
\* C6: every floor below the topmost one gets beams along both horizontal
\* axes, (F-1)*2*N*(N-1) beam boxes in all: in the "Beams" group of
\* build_structure and, for the single-mesh generators, in the one mesh next
\* to the slabs and columns (and the brace, walls and core of v2).
C6_BeamCount ==
    /\ lod0 # <<>> =>
          Len(GroupOf(lod0, "Beams").v) = 8 * ((floors - 1) * 2 * grid_L0 * (grid_L0 - 1))
    /\ lod1 # <<>> =>
          Len(GroupOf(lod1, "Beams").v) = 8 * ((floors - 1) * 2 * grid_L1 * (grid_L1 - 1))
    /\ variant = "v1" /\ pc \in {"emit", "done"} =>
          Len(all_vertices) = 8 * (floors + (floors - 1) * grid_size * grid_size
                                   + (floors - 1) * 2 * grid_size * (grid_size - 1))
    /\ variant = "v2" /\ pc \in {"emit", "done"} =>
          Len(all_vertices) = 8 * (floors + (floors - 1) * grid_size * grid_size
                                   + (floors - 1) * 2 * grid_size * (grid_size - 1)
                                   + 3 * (floors - 1))

\* ---------------------------------------------------------------- C7
\* C7: a group with zero vertices that reaches the packer is skipped: no
\* buffer view of length 0, no accessor of count 0, no mesh and no node for
\* it; for F = 1 the document has no Columns, Beams, Core or Walls entry.
EmptyGroupNames == {"Columns", "Beams", "Core", "Walls"}

C7_EmptyGroupSkipped ==
    variant = "v3" =>
        /\ \A k \in 1..Len(accessors) : accessors[k].count > 0
        /\ \A k \in 1..Len(bufferViews) : bufferViews[k].byteLength > 0
        /\ floors = 1 =>
              \A m \in 1..Len(nodes) : \A g \in EmptyGroupNames :
                  nodes[m].name # g \o "_LOD" \o ToString(nodes[m].extras.lod)

\* ---------------------------------------------------------------- C8
\* C8: a run that fails on a grid resolution of 1 has failed before any
\* geometry was emitted: no mesh group is populated, nothing is appended to
\* the buffer and no artifact is written, also when the resolution of 1 is
\* that of the second LOD.
C8_FailBeforeGeometry ==
    pc = "failed" =>
        /\ error # ""
        /\ lod0 = <<>> /\ lod1 = <<>>
        /\ all_vertices = <<>> /\ all_indices = <<>>
        /\ all_buffer = 0 /\ bufferViews = <<>>
        /\ ~written

\* ---------------------------------------------------------------- C9
\* C9: every buffer view carries a usage target: 34962 when a VEC3 (position
\* or normal) accessor reads it, 34963 when the index accessor reads it; in
\* append_mesh as in the single-mesh generators.
C9_ViewTargets ==
    \A k \in 1..Len(accessors) :
        LET view == bufferViews[accessors[k].bufferView + 1]
        IN  /\ "target" \in DOMAIN view
            /\ view.target = IF accessors[k].type = "VEC3" THEN 34962 ELSE 34963

\* ---------------------------------------------------------------- C10
\* C10: for every emitted mesh the position accessor, and only it, declares
\* min and max: the per-axis minimum and maximum over the vertices of that
\* mesh; normal and index accessors carry no bounds.
MeshVertices(m) == IF variant = "v3" THEN Emitted(m).v ELSE all_vertices

C10_PositionBounds ==
    /\ \A k \in 1..Len(accessors) :
          \/ \E m \in 1..Len(meshes) : k = meshes[m].POSITION + 1
          \/ "min" \notin DOMAIN accessors[k] /\ "max" \notin DOMAIN accessors[k]
    /\ \A m \in 1..Len(meshes) :
          LET acc == accessors[meshes[m].POSITION + 1]
          IN  /\ "min" \in DOMAIN acc /\ "max" \in DOMAIN acc
              /\ \A a \in 1..3 :
                    /\ acc.min[a] = AxisMin(MeshVertices(m), a)
                    /\ acc.max[a] = AxisMax(MeshVertices(m), a)
====
